---- MODULE Spec2Model ----
(***************************************************************************)
(* Model of the e-commerce backend: the products and orders tables of a    *)
(* PostgreSQL database (READ COMMITTED, row locks), the request handlers   *)
(* of the HTTP API that run OrderService.create_order,                      *)
(* ProductService.create and ProductService.update concurrently, each in   *)
(* its own session, the cache invalidations they issue and the tasks they  *)
(* enqueue, and the Celery worker processes that execute process_order for *)
(* the enqueued tasks, with its retries, its time limit and the redelivery *)
(* of the message of a lost worker process.                                *)
(*                                                                         *)
(* Prices are Float columns in the source; the model uses positive         *)
(* integers (an amount in a smallest unit) so that price * quantity is the *)
(* same product the code computes.  Names and timestamps of rows are not   *)
(* modelled.                                                               *)
(***************************************************************************)
EXTENDS Integers, Sequences, FiniteSets, TLC

\* ---------------------------------------------------------------- bounds
NumClients == 2      \* concurrent purchase requests, one handler each
MaxProducts == 2     \* product ids 1..MaxProducts
MaxStock == 2        \* largest stock value a request may supply
MaxQty == 2          \* largest quantity a purchase may request
MaxPrice == 2        \* largest price a request may supply
NumWorkers == 2      \* worker processes executing tasks at the same time
MaxLost == 1         \* worker processes lost while executing a task
MaxRows == 15        \* rows of the orders table when a listing is requested
MaxPage == 3         \* largest page number a listing may request
MaxPageSize == 10    \* largest page_size a listing may request

\* self.retry(..., max_retries=3) of process_order.
MaxRetries == 3

\* Request handlers: each serves one request in a session of its own. Under
\* Spec the handlers in Clients serve purchases and one more handler serves
\* a product request; under SpecReserve every handler serves a purchase.
Clients == 1..NumClients
Admins == {NumClients + 1}
Handlers == Clients \cup Admins
ProductIds == 1..MaxProducts

\* Each handler serves one request, so it creates at most one order.
OrderIds == 1..(NumClients + 1)

\* Pool processes of the Celery worker (worker_concurrency of them), each
\* executing one task at a time (worker_prefetch_multiplier=1).
Workers == 1..NumWorkers

\* Values a client may send: the invalid ones (0, -1) are included so that
\* the schema validation is exercised.
QtyInputs == -1..MaxQty
PriceInputs == 0..MaxPrice
StockInputs == -1..MaxStock

\* Optional[...] of the pydantic schemas: <<>> is None, <<v>> is the value v.
None == <<>>
Some(v) == <<v>>
Optional(S) == {None} \cup {Some(v) : v \in S}

VARIABLES
    products,     \* committed rows of table products, by id
    orders,       \* committed rows of table orders; the index is the order id
    lock,         \* lock[p]: the sessions holding the row lock of product p
    req,          \* req[c]: the call of handler c, its session and its result
    queue,        \* order ids handed to process_order.delay, in order
    grants,       \* history: create_order calls in the order their lock was granted
    initStock,    \* history: stock of each product when it was created
    restocked,    \* history: stock added by updates that raised the stock
    tasks,        \* broker: how many copies of each task message wait for delivery
    worker,       \* worker[w]: the delivery worker process w is executing
    attempts,     \* history: executions of process_order started, by order id
    lost,         \* history: worker processes lost while executing a task
    exhausted,    \* history: order ids whose last allowed retry has failed
    cache,        \* Redis: cache[p] is the value of key "product:<p>", if any
    redisDown     \* Redis cannot be reached: its commands raise RedisError

procVars == <<tasks, worker, attempts, lost, exhausted>>
cacheVars == <<cache, redisDown>>
vars == <<products, orders, lock, req, queue, grants, initStock, restocked,
          tasks, worker, attempts, lost, exhausted, cache, redisDown>>

\* ------------------------------------------------------------ data model
\* app/models/product.py: a row of products (exists = FALSE: no such row).
NoRow == [exists |-> FALSE, price |-> 0, stock |-> 0]
Product(price, stock) == [exists |-> TRUE, price |-> price, stock |-> stock]

\* app/models/order.py: OrderStatus and a row of orders.
OrderStatus == {"PENDING", "PROCESSING", "COMPLETED", "FAILED"}
Order(product_id, quantity, total_price, status) ==
    [product_id |-> product_id, quantity |-> quantity,
     total_price |-> total_price, status |-> status]
NoOrder == [product_id |-> 0, quantity |-> 0, total_price |-> 0, status |-> "NONE"]

\* CheckConstraint('price > 0') and CheckConstraint('stock >= 0') of products.
check_price_positive(row) == row.price > 0
check_stock_non_negative(row) == row.stock >= 0

\* ProductUpdate with every field unset.
NoData == [price |-> None, stock |-> None]

\* A handler that has not been called.
IdleReq ==
    [pc |-> "idle", op |-> "none", pid |-> 1, qty |-> 0, data |-> NoData,
     loaded |-> NoRow, commit_price |-> 0, rowcount |-> 0,
     page |-> 0, page_size |-> 0, status |-> None,
     total |-> 0, total_pages |-> 0, items |-> <<>>, returned |-> NoRow,
     result |-> "none", order |-> NoOrder, order_id |-> 0,
     invalidated |-> <<>>, enqueued |-> <<>>]

\* A message of task process_order: its argument and request.retries.
TaskMessage(order_id, retries) == [order_id |-> order_id, retries |-> retries]
TaskMessages == [order_id : OrderIds, retries : 0..(MaxRetries + 1)]

\* A worker process that executes no task.
IdleWorker ==
    [pc |-> "idle", order_id |-> 0, retries |-> 0, result |-> "none", locks |-> {}]

TypeOK ==
    /\ products \in [ProductIds -> [exists : BOOLEAN, price : Int, stock : Int]]
    /\ orders \in Seq([product_id : ProductIds, quantity : Int,
                       total_price : Int, status : OrderStatus])
    /\ lock \in [ProductIds -> SUBSET Handlers]
    /\ DOMAIN req = Handlers
    /\ queue \in Seq(Nat)
    /\ grants \in Seq(Handlers)
    /\ initStock \in [ProductIds -> Int]
    /\ restocked \in [ProductIds -> Int]
    /\ tasks \in [TaskMessages -> Nat]
    /\ worker \in [Workers -> [pc : {"idle", "external", "complete", "handler",
                                     "retry", "ack"},
                               order_id : {0} \cup OrderIds,
                               retries : 0..(MaxRetries + 1),
                               result : {"none", "success", "failed", "retry",
                                         "raised"},
                               locks : SUBSET OrderIds]]
    /\ attempts \in [OrderIds -> Nat]
    /\ lost \in 0..MaxLost
    /\ exhausted \subseteq OrderIds
    /\ cache \in [ProductIds -> [exists : BOOLEAN, price : Int, stock : Int]]
    /\ redisDown \in BOOLEAN

\* The database after the tables were created and product 1 was added by
\* ProductService.create with a valid price and stock; no call has started.
Init ==
    /\ \E price \in 1..MaxPrice, stock \in 0..MaxStock :
          /\ products = [p \in ProductIds |->
                            IF p = 1 THEN Product(price, stock) ELSE NoRow]
          /\ initStock = [p \in ProductIds |-> IF p = 1 THEN stock ELSE 0]
    /\ orders = <<>>
    /\ lock = [p \in ProductIds |-> {}]
    /\ req = [c \in Handlers |-> IdleReq]
    /\ queue = <<>>
    /\ grants = <<>>
    /\ restocked = [p \in ProductIds |-> 0]
    /\ tasks = [m \in TaskMessages |-> 0]
    /\ worker = [w \in Workers |-> IdleWorker]
    /\ attempts = [id \in OrderIds |-> 0]
    /\ lost = 0
    /\ exhausted = {}
    /\ cache = [p \in ProductIds |-> NoRow]
    /\ redisDown = FALSE

\* ------------------------------------------------------- shared helpers
\* Faulty variant: the existence test of the row is skipped.
ProductExistsAlways(p) == TRUE

\* The "if not product" test on the row a query returned.
ProductExists(p) == products[p].exists

\* Faulty variant: the row is read without with_for_update().
CanLockFree(p, c) == TRUE

\* SELECT ... FOR UPDATE is granted only while no other session holds the
\* row lock; an UPDATE of the row by another session waits in the same way.
CanLock(p, c) == lock[p] \subseteq {c}

\* Faulty variant: the session is left open, neither committed nor rolled
\* back.
KeepLocks(c) == lock

\* COMMIT and ROLLBACK release every row lock of the session.
ReleaseLocks(c) == [p \in ProductIds |-> lock[p] \ {c}]

\* Faulty variant: the message is not sent.
PublishDropped(m) == tasks

\* apply_async: one more copy of message m waits in the broker.
Publish(m) == [tasks EXCEPT ![m] = @ + 1]

\* Faulty variant: quantity carries no ge constraint.
ValidOrderCreateAny(quantity) == TRUE

\* OrderCreate: quantity has ge=1.
ValidOrderCreate(quantity) == quantity >= 1

\* Faulty variant: the schema fields carry no gt / ge constraint.
ValidProductCreateAny(price, stock) == TRUE

\* ProductBase / ProductCreate: price has gt=0, stock has ge=0.
ValidProductCreate(price, stock) == price > 0 /\ stock >= 0

\* ProductUpdate: the same constraints on the fields that are given.
ValidProductUpdate(data) ==
    /\ data.price # None => data.price[1] > 0
    /\ data.stock # None => data.stock[1] >= 0

\* Faulty variant: the test is product.stock <= quantity.
HasStockStrict(stock, quantity) == stock > quantity

\* create_order line 95: the call goes on unless product.stock < quantity.
HasStock(stock, quantity) == ~(stock < quantity)

\* Faulty variant: the stock is lowered by one whatever the quantity.
DecrementOne(stock, quantity) == stock - 1

\* create_order line 104: product.stock -= quantity.
Decrement(stock, quantity) == stock - quantity

\* Faulty variant: the unit price is taken as the total.
TotalPriceUnit(price, quantity) == price

\* create_order line 101: total_price = product.price * quantity.
TotalPrice(price, quantity) == price * quantity

\* The request of handler c ends with the given result: get_db closes the
\* session, which forgets the rows it loaded, and the request body is gone.
Finish(c, result) ==
    [req EXCEPT ![c].pc = "done", ![c].result = result,
                ![c].loaded = NoRow, ![c].data = NoData,
                ![c].order = NoOrder, ![c].commit_price = 0]

\* ------------------------------------------- POST /orders: create_order
\* api/orders.py create_order: the body is validated against OrderCreate
\* (422 when quantity < 1), then OrderService.create_order starts.
CO_Call(c, pid, quantity) ==
    /\ req[c].pc = "idle"
    /\ req' = [req EXCEPT ![c] =
                 IF ValidOrderCreate(quantity)
                 THEN [@ EXCEPT !.op = "create_order", !.pc = "co_lock",
                                !.pid = pid, !.qty = quantity]
                 ELSE [@ EXCEPT !.op = "create_order", !.pc = "done",
                                !.result = "ValidationError"]]
    /\ UNCHANGED <<products, orders, lock, queue, grants, initStock, restocked>>
    /\ UNCHANGED procVars
    /\ UNCHANGED cacheVars

\* create_order lines 84-92 (and 125-127): SELECT ... FOR UPDATE. No row:
\* ProductNotFoundError, rollback. Otherwise the statement waits for the row
\* lock, takes it and loads the committed row into the session.
CO_LockRead(c) ==
    LET p == req[c].pid IN
    /\ req[c].pc = "co_lock"
    /\ IF ~ProductExists(p)
       THEN /\ req' = Finish(c, "ProductNotFoundError")
            /\ lock' = ReleaseLocks(c)
            /\ UNCHANGED grants
       ELSE /\ CanLock(p, c)
            /\ lock' = [lock EXCEPT ![p] = @ \cup {c}]
            /\ req' = [req EXCEPT ![c].pc = "co_reserve", ![c].loaded = products[p]]
            /\ grants' = Append(grants, c)
    /\ UNCHANGED <<products, orders, queue, initStock, restocked>>
    /\ UNCHANGED procVars
    /\ UNCHANGED cacheVars

\* Faulty variant: the reservation neither compares the stock with the
\* quantity nor runs against a table that has the stock constraint.
CO_ReserveUnchecked(c) ==
    LET r == req[c]
        p == r.pid
        order == Order(p, r.qty, TotalPrice(r.loaded.price, r.qty), "PENDING")
    IN
    /\ r.pc = "co_reserve"
    /\ products' = [products EXCEPT ![p].stock = Decrement(r.loaded.stock, r.qty)]
    /\ orders' = Append(orders, order)
    /\ req' = [req EXCEPT ![c].pc = "co_invalidate",
                          ![c].order_id = Len(orders) + 1,
                          ![c].order = order,
                          ![c].commit_price = products[p].price]
    /\ lock' = ReleaseLocks(c)
    /\ UNCHANGED <<queue, grants, initStock, restocked>>
    /\ UNCHANGED procVars
    /\ UNCHANGED cacheVars

\* create_order lines 95-116 (and 125-132), run while the row lock is held.
\* Insufficient stock: InsufficientStockError, rollback. Otherwise the
\* session's product.stock is decremented, the order is added, and commit
\* flushes UPDATE products SET stock = <session value> and INSERT INTO
\* orders; a flush the stock constraint rejects raises IntegrityError, which
\* is rolled back and raised as InsufficientStockError. refresh(order)
\* reloads the committed order row.
CO_Reserve(c) ==
    LET r == req[c]
        p == r.pid
        total == TotalPrice(r.loaded.price, r.qty)
        newRow == [r.loaded EXCEPT !.stock = Decrement(r.loaded.stock, r.qty)]
        order == Order(p, r.qty, total, "PENDING")
    IN
    /\ r.pc = "co_reserve"
    /\ IF HasStock(r.loaded.stock, r.qty) /\ check_stock_non_negative(newRow)
       THEN /\ products' = [products EXCEPT ![p].stock = newRow.stock]
            /\ orders' = Append(orders, order)
            /\ req' = [req EXCEPT ![c].pc = "co_invalidate",
                                  ![c].order_id = Len(orders) + 1,
                                  ![c].order = order,
                                  ![c].commit_price = products[p].price]
       ELSE /\ req' = Finish(c, "InsufficientStockError")
            /\ UNCHANGED <<products, orders>>
    /\ lock' = ReleaseLocks(c)
    /\ UNCHANGED <<queue, grants, initStock, restocked>>
    /\ UNCHANGED procVars
    /\ UNCHANGED cacheVars

\* Faulty variant: the failed commit leaves the flushed stock in place.
CO_CommitFailsNoRollback(c) ==
    /\ req[c].pc = "co_reserve"
    /\ HasStock(req[c].loaded.stock, req[c].qty)
    /\ products' = [products EXCEPT ![req[c].pid].stock =
                                 Decrement(req[c].loaded.stock, req[c].qty)]
    /\ req' = Finish(c, "Exception")
    /\ lock' = ReleaseLocks(c)
    /\ UNCHANGED <<orders, queue, grants, initStock, restocked>>
    /\ UNCHANGED procVars
    /\ UNCHANGED cacheVars

\* create_order lines 115 and 133-136: the commit itself fails (the
\* database is lost, the statement times out) after the session changed
\* product.stock and added the order; the session is rolled back and the
\* exception is raised again.
CO_CommitFails(c) ==
    /\ req[c].pc = "co_reserve"
    /\ HasStock(req[c].loaded.stock, req[c].qty)
    /\ req' = Finish(c, "Exception")
    /\ lock' = ReleaseLocks(c)
    /\ UNCHANGED <<products, orders, queue, grants, initStock, restocked>>
    /\ UNCHANGED procVars
    /\ UNCHANGED cacheVars

\* CacheService.get (utils/cache.py lines 44-51): the value of the key, or
\* None when there is none or Redis raises. NoRow stands for None.
CacheGet(p) == IF redisDown THEN NoRow ELSE cache[p]

\* CacheService.set lines 67-73: the key is set, unless Redis raises.
CacheSet(p, row) == IF redisDown THEN cache ELSE [cache EXCEPT ![p] = row]

\* CacheService.delete lines 86-91: the keys are deleted, unless Redis raises.
CacheDelete(keys) ==
    IF redisDown THEN cache
    ELSE [p \in ProductIds |-> IF p \in keys THEN NoRow ELSE cache[p]]

\* Faulty variant: the RedisError of a command reaches the caller.
RaisesWhenDown(down) == down

\* utils/cache.py lines 50, 72 and 90: get, set and delete catch RedisError
\* and return None or False, so a call of the cache raises nothing.
Raises(down) == FALSE

\* Faulty variant: the cache key is not deleted.
InvalidatedKeysNone(c) == req[c].invalidated

\* cache_service.delete("product", str(product_id)): the keys handler c
\* has deleted, this one included.
InvalidatedKeys(c) == Append(req[c].invalidated, req[c].pid)

\* The keys the call of cache_service.delete by handler c deletes.
DeletedKeys(c) ==
    {InvalidatedKeys(c)[i] :
        i \in (Len(req[c].invalidated) + 1)..Len(InvalidatedKeys(c))}

\* create_order lines 119-123: the product's cache key is deleted and the
\* order is returned to the API handler.
CO_Invalidate(c) ==
    /\ req[c].pc = "co_invalidate"
    /\ req' = IF Raises(redisDown)
              THEN Finish(c, "Exception")
              ELSE [req EXCEPT ![c].pc = "co_enqueue", ![c].result = "Order",
                               ![c].invalidated = InvalidatedKeys(c)]
    /\ UNCHANGED <<products, orders, lock, queue, grants, initStock, restocked>>
    /\ UNCHANGED procVars
    /\ cache' = CacheDelete(DeletedKeys(c))
    /\ UNCHANGED redisDown

\* Faulty variant: the task is sent twice.
CO_EnqueueTwice(c) ==
    /\ req[c].pc = "co_enqueue"
    /\ queue' = queue \o <<req[c].order_id, req[c].order_id>>
    /\ req' = [Finish(c, "Order") EXCEPT
                 ![c].enqueued = @ \o <<req[c].order_id, req[c].order_id>>]
    /\ tasks' = [tasks EXCEPT ![TaskMessage(req[c].order_id, 0)] = @ + 2]
    /\ UNCHANGED <<products, orders, lock, grants, initStock, restocked>>
    /\ UNCHANGED <<worker, attempts, lost, exhausted>>
    /\ UNCHANGED cacheVars

\* api/orders.py lines 59-64: process_order.delay(order.id), then 201.
CO_Enqueue(c) ==
    /\ req[c].pc = "co_enqueue"
    /\ queue' = Append(queue, req[c].order_id)
    /\ req' = [Finish(c, "Order") EXCEPT ![c].enqueued = Append(@, req[c].order_id)]
    /\ tasks' = Publish(TaskMessage(req[c].order_id, 0))
    /\ UNCHANGED <<products, orders, lock, grants, initStock, restocked>>
    /\ UNCHANGED <<worker, attempts, lost, exhausted>>
    /\ UNCHANGED cacheVars

\* ---------------------------------------- POST /products: create
\* Postgres gives a new row the next id of the sequence.
NextProductId == Cardinality({p \in ProductIds : ProductExists(p)}) + 1

\* api/products.py create_product and ProductService.create lines 38-46:
\* the body is validated against ProductCreate (422), then the row is
\* inserted and committed; the table's constraints are checked by the
\* insert.
CreateProduct(c, price, stock) ==
    LET id == NextProductId
        row == Product(price, stock)
        ok == /\ ValidProductCreate(price, stock)
              /\ check_price_positive(row)
              /\ check_stock_non_negative(row)
    IN
    /\ req[c].pc = "idle"
    /\ id \in ProductIds
    /\ products' = IF ok THEN [products EXCEPT ![id] = row] ELSE products
    /\ initStock' = IF ok THEN [initStock EXCEPT ![id] = stock] ELSE initStock
    /\ req' = [req EXCEPT ![c] =
                 IF ok
                 THEN [@ EXCEPT !.op = "create", !.pc = "done", !.pid = id,
                                !.result = "Product"]
                 ELSE [@ EXCEPT !.op = "create", !.pc = "done",
                                !.result = IF ValidProductCreate(price, stock)
                                           THEN "Exception"
                                           ELSE "ValidationError"]]
    /\ UNCHANGED <<orders, lock, queue, grants, restocked>>
    /\ UNCHANGED procVars
    /\ UNCHANGED cacheVars

\* ------------------------------------ PUT /products/{id}: update
\* api/products.py update_product: the body is validated against
\* ProductUpdate (422), then ProductService.update starts.
UP_Call(c, pid, data) ==
    /\ req[c].pc = "idle"
    /\ req' = [req EXCEPT ![c] =
                 IF ValidProductUpdate(data)
                 THEN [@ EXCEPT !.op = "update", !.pc = "up_read",
                                !.pid = pid, !.data = data]
                 ELSE [@ EXCEPT !.op = "update", !.pc = "done",
                                !.result = "ValidationError"]]
    /\ UNCHANGED <<products, orders, lock, queue, grants, initStock, restocked>>
    /\ UNCHANGED procVars
    /\ UNCHANGED cacheVars

\* ProductService.update lines 153-156: a plain SELECT, which takes no lock
\* and waits for none; no row: None is returned (404).
UP_Read(c) ==
    LET p == req[c].pid IN
    /\ req[c].pc = "up_read"
    /\ req' = IF ProductExists(p)
              THEN [req EXCEPT ![c].pc = "up_commit", ![c].loaded = products[p]]
              ELSE Finish(c, "None")
    /\ UNCHANGED <<products, orders, lock, queue, grants, initStock, restocked>>
    /\ UNCHANGED procVars
    /\ UNCHANGED cacheVars

\* The columns the flush of update writes: a field that was given, is not
\* None and differs from the value loaded into the session.
PriceWritten(c) == req[c].data.price # None /\ req[c].data.price[1] # req[c].loaded.price
StockWritten(c) == req[c].data.stock # None /\ req[c].data.stock[1] # req[c].loaded.stock

\* Faulty variant: the flush writes every column of the loaded object, so a
\* field that was not given is set back to the value read at the start.
UP_CommitAllColumns(c) ==
    LET r == req[c]
        p == r.pid
        price == IF r.data.price # None THEN r.data.price[1] ELSE r.loaded.price
        stock == IF r.data.stock # None THEN r.data.stock[1] ELSE r.loaded.stock
        row == Product(price, stock)
        ok == /\ ProductExists(p)
              /\ check_price_positive(row)
              /\ check_stock_non_negative(row)
    IN
    /\ r.pc = "up_commit"
    /\ CanLock(p, c)
    /\ products' = IF ok THEN [products EXCEPT ![p] = row] ELSE products
    /\ restocked' = IF ok /\ stock > r.loaded.stock
                    THEN [restocked EXCEPT ![p] = @ + stock - r.loaded.stock]
                    ELSE restocked
    /\ req' = IF ok THEN [req EXCEPT ![c].pc = "up_invalidate"]
                    ELSE Finish(c, "Exception")
    /\ lock' = ReleaseLocks(c)
    /\ UNCHANGED <<orders, queue, grants, initStock>>
    /\ UNCHANGED procVars
    /\ UNCHANGED cacheVars

\* ProductService.update lines 159-165: setattr of the given fields, then
\* commit flushes UPDATE products SET <the changed columns> WHERE id = p,
\* which waits while another session holds the row lock, and commits. A row
\* that was deleted since it was loaded makes the flush (no row matched) or
\* the refresh raise.
UP_Commit(c) ==
    LET r == req[c]
        p == r.pid
        price == IF PriceWritten(c) THEN r.data.price[1] ELSE products[p].price
        stock == IF StockWritten(c) THEN r.data.stock[1] ELSE products[p].stock
        row == Product(price, stock)
        ok == /\ ProductExists(p)
              /\ check_price_positive(row)
              /\ check_stock_non_negative(row)
    IN
    /\ r.pc = "up_commit"
    /\ (PriceWritten(c) \/ StockWritten(c)) => CanLock(p, c)
    /\ products' = IF ok THEN [products EXCEPT ![p] = row] ELSE products
    /\ restocked' = IF ok /\ StockWritten(c) /\ r.data.stock[1] > r.loaded.stock
                    THEN [restocked EXCEPT ![p] = @ + r.data.stock[1] - r.loaded.stock]
                    ELSE restocked
    /\ req' = IF ok THEN [req EXCEPT ![c].pc = "up_invalidate"]
                    ELSE Finish(c, "Exception")
    /\ lock' = ReleaseLocks(c)
    /\ UNCHANGED <<orders, queue, grants, initStock>>
    /\ UNCHANGED procVars
    /\ UNCHANGED cacheVars

\* ProductService.update lines 167-170: the cache key is deleted and the
\* product is returned.
UP_Invalidate(c) ==
    /\ req[c].pc = "up_invalidate"
    /\ req' = IF Raises(redisDown)
              THEN Finish(c, "Exception")
              ELSE [Finish(c, "Product") EXCEPT ![c].invalidated = InvalidatedKeys(c)]
    /\ UNCHANGED <<products, orders, lock, queue, grants, initStock, restocked>>
    /\ UNCHANGED procVars
    /\ cache' = CacheDelete(DeletedKeys(c))
    /\ UNCHANGED redisDown

\* ------------------------- OrderService.create_order_optimistic
\* The order data is an OrderCreate (quantity >= 1); the method starts.
OP_Call(c, pid, quantity) ==
    /\ req[c].pc = "idle"
    /\ req' = [req EXCEPT ![c] =
                 IF ValidOrderCreate(quantity)
                 THEN [@ EXCEPT !.op = "create_order_optimistic", !.pc = "op_read",
                                !.pid = pid, !.qty = quantity]
                 ELSE [@ EXCEPT !.op = "create_order_optimistic", !.pc = "done",
                                !.result = "ValidationError"]]
    /\ UNCHANGED <<products, orders, lock, queue, grants, initStock, restocked>>
    /\ UNCHANGED procVars
    /\ UNCHANGED cacheVars

\* create_order_optimistic lines 163-166: a plain SELECT, without a lock;
\* no row: ProductNotFoundError.
OP_Read(c) ==
    LET p == req[c].pid IN
    /\ req[c].pc = "op_read"
    /\ req' = IF ProductExists(p)
              THEN [req EXCEPT ![c].pc = "op_update", ![c].loaded = products[p]]
              ELSE Finish(c, "ProductNotFoundError")
    /\ UNCHANGED <<products, orders, lock, queue, grants, initStock, restocked>>
    /\ UNCHANGED procVars
    /\ UNCHANGED cacheVars

\* Rows the statement UPDATE products SET stock = stock - :quantity WHERE
\* id = :product_id AND stock >= :quantity changes.
RowCount(row, quantity) == IF row.exists /\ row.stock >= quantity THEN 1 ELSE 0

\* Faulty variant: result.rowcount is not tested.
AffectedAlways(rowcount) == TRUE

\* create_order_optimistic line 181: the call goes on unless rowcount == 0.
Affected(rowcount) == ~(rowcount = 0)

\* create_order_optimistic lines 170-185: the conditional UPDATE. A row
\* that matches is locked by the statement, which waits while another
\* session holds the row lock and then tests the row as committed by then;
\* the lock is kept until the commit. rowcount == 0: rollback and
\* InsufficientStockError.
OP_Update(c) ==
    LET r == req[c]
        p == r.pid
        rowcount == RowCount(products[p], r.qty)
    IN
    /\ r.pc = "op_update"
    /\ rowcount = 1 => CanLock(p, c)
    /\ IF Affected(rowcount)
       THEN /\ req' = [req EXCEPT ![c].pc = "op_commit", ![c].rowcount = rowcount]
            /\ lock' = IF rowcount = 1 THEN [lock EXCEPT ![p] = @ \cup {c}] ELSE lock
       ELSE /\ req' = Finish(c, "InsufficientStockError")
            /\ lock' = ReleaseLocks(c)
    /\ UNCHANGED <<products, orders, queue, grants, initStock, restocked>>
    /\ UNCHANGED procVars
    /\ UNCHANGED cacheVars

\* create_order_optimistic lines 188-197: the order is added with the
\* price read at line 163, and the commit makes the decrement of the UPDATE
\* and the order row visible and releases the row lock.
OP_Commit(c) ==
    LET r == req[c]
        p == r.pid
        order == Order(p, r.qty, TotalPrice(r.loaded.price, r.qty), "PENDING")
    IN
    /\ r.pc = "op_commit"
    /\ products' = IF r.rowcount = 1
                   THEN [products EXCEPT ![p].stock = Decrement(@, r.qty)]
                   ELSE products
    /\ orders' = Append(orders, order)
    /\ req' = [req EXCEPT ![c].pc = "op_invalidate",
                          ![c].order_id = Len(orders) + 1,
                          ![c].order = order,
                          ![c].commit_price = products[p].price]
    /\ lock' = ReleaseLocks(c)
    /\ UNCHANGED <<queue, grants, initStock, restocked>>
    /\ UNCHANGED procVars
    /\ UNCHANGED cacheVars

\* create_order_optimistic lines 199-202: the cache key is deleted and the
\* order is returned.
OP_Invalidate(c) ==
    /\ req[c].pc = "op_invalidate"
    /\ req' = IF Raises(redisDown)
              THEN Finish(c, "Exception")
              ELSE [Finish(c, "Order") EXCEPT ![c].invalidated = InvalidatedKeys(c)]
    /\ UNCHANGED <<products, orders, lock, queue, grants, initStock, restocked>>
    /\ UNCHANGED procVars
    /\ cache' = CacheDelete(DeletedKeys(c))
    /\ UNCHANGED redisDown

\* ------------------------------------- GET /orders/: get_orders
\* Query(1, ge=1) and Query(10, ge=1, le=100) of list_orders.
ValidListQuery(page, page_size) == page >= 1 /\ page_size >= 1 /\ page_size <= 100

\* api/orders.py list_orders: FastAPI validates the query parameters (422
\* otherwise) and the handler calls get_orders.
LO_Call(c, page, page_size, status) ==
    /\ req[c].pc = "idle"
    /\ req' = [req EXCEPT ![c] =
                 IF ValidListQuery(page, page_size)
                 THEN [@ EXCEPT !.op = "get_orders", !.pc = "lo_count",
                                !.page = page, !.page_size = page_size,
                                !.status = status]
                 ELSE [@ EXCEPT !.op = "get_orders", !.pc = "done",
                                !.result = "ValidationError"]]
    /\ UNCHANGED <<products, orders, lock, queue, grants, initStock, restocked>>
    /\ UNCHANGED procVars
    /\ UNCHANGED cacheVars

\* get_orders lines 225-228: the query, filtered by status if one is given;
\* the ids of the rows it selects.
Matching(rows, status) ==
    {i \in 1..Len(rows) : status = None \/ rows[i].status = status[1]}

\* math.ceil(a / b) for a >= 0, b >= 1.
Ceil(a, b) == IF a % b = 0 THEN a \div b ELSE (a \div b) + 1

\* Faulty variant: the number of full pages.
TotalPagesFloor(total, page_size) == total \div page_size

\* get_orders line 231.
TotalPages(total, page_size) == IF total > 0 THEN Ceil(total, page_size) ELSE 1

\* order_by(Order.id.desc()): the ids of S, the largest first.
RECURSIVE OrderByIdDesc(_)
OrderByIdDesc(S) ==
    IF S = {} THEN <<>>
    ELSE LET m == CHOOSE x \in S : \A y \in S : y <= x
         IN <<m>> \o OrderByIdDesc(S \ {m})

\* .offset(n) and .limit(n) of a query.
Offset(seq, n) == SubSeq(seq, n + 1, Len(seq))
Limit(seq, n) == SubSeq(seq, 1, IF n < Len(seq) THEN n ELSE Len(seq))

\* get_orders lines 230-231: SELECT count(*) and the number of pages.
LO_Count(c) ==
    LET total == Cardinality(Matching(orders, req[c].status)) IN
    /\ req[c].pc = "lo_count"
    /\ req' = [req EXCEPT ![c].pc = "lo_fetch",
                          ![c].total = total,
                          ![c].total_pages = TotalPages(total, req[c].page_size)]
    /\ UNCHANGED <<products, orders, lock, queue, grants, initStock, restocked>>
    /\ UNCHANGED procVars
    /\ UNCHANGED cacheVars

\* get_orders lines 233-236: a second SELECT fetches the page, and the
\* three values are returned.
LO_Fetch(c) ==
    LET r == req[c]
        offset == (r.page - 1) * r.page_size
        rows == Limit(Offset(OrderByIdDesc(Matching(orders, r.status)), offset),
                      r.page_size)
    IN
    /\ r.pc = "lo_fetch"
    /\ req' = [Finish(c, "OrderList") EXCEPT ![c].items = rows]
    /\ UNCHANGED <<products, orders, lock, queue, grants, initStock, restocked>>
    /\ UNCHANGED procVars
    /\ UNCHANGED cacheVars

\* ------------------ GET /products/{id}: get_by_id (reads through)
\* api/products.py get_product and get_by_id lines 62-65: the cache is
\* asked, and whatever it answers the product is fetched from the database.
GP_Call(c, pid) ==
    /\ req[c].pc = "idle"
    /\ req' = [req EXCEPT ![c] =
                 IF Raises(redisDown)
                 THEN [@ EXCEPT !.op = "get_by_id", !.pc = "done", !.pid = pid,
                                !.result = "Exception"]
                 ELSE [@ EXCEPT !.op = "get_by_id", !.pc = "gp_read", !.pid = pid]]
    /\ UNCHANGED <<products, orders, lock, queue, grants, initStock, restocked>>
    /\ UNCHANGED procVars
    /\ UNCHANGED cacheVars

\* get_by_id line 68: a plain SELECT; no row: None is returned (404).
GP_Read(c) ==
    LET p == req[c].pid IN
    /\ req[c].pc = "gp_read"
    /\ req' = IF ProductExists(p)
              THEN [req EXCEPT ![c].pc = "gp_cache", ![c].loaded = products[p]]
              ELSE Finish(c, "None")
    /\ UNCHANGED <<products, orders, lock, queue, grants, initStock, restocked>>
    /\ UNCHANGED procVars
    /\ UNCHANGED cacheVars

\* get_by_id lines 71-74 and _cache_product: the row that was loaded is
\* written to the cache and returned.
GP_Cache(c) ==
    /\ req[c].pc = "gp_cache"
    /\ cache' = CacheSet(req[c].pid, req[c].loaded)
    /\ req' = IF Raises(redisDown)
              THEN Finish(c, "Exception")
              ELSE [Finish(c, "Product") EXCEPT ![c].returned = req[c].loaded]
    /\ UNCHANGED <<products, orders, lock, queue, grants, initStock, restocked>>
    /\ UNCHANGED procVars
    /\ UNCHANGED redisDown

\* ---------------- GET /products/{id}/cached: get_by_id_cached
\* get_by_id_cached lines 88-90: a value found in the cache is returned.
GC_Call(c, pid) ==
    LET cached == CacheGet(pid) IN
    /\ req[c].pc = "idle"
    /\ req' = [req EXCEPT ![c] =
                 IF Raises(redisDown)
                 THEN [@ EXCEPT !.op = "get_by_id_cached", !.pc = "done",
                                !.pid = pid, !.result = "Exception"]
                 ELSE IF cached.exists
                 THEN [@ EXCEPT !.op = "get_by_id_cached", !.pc = "done",
                                !.pid = pid, !.result = "Cached",
                                !.returned = cached]
                 ELSE [@ EXCEPT !.op = "get_by_id_cached", !.pc = "gc_read",
                                !.pid = pid]]
    /\ UNCHANGED <<products, orders, lock, queue, grants, initStock, restocked>>
    /\ UNCHANGED procVars
    /\ UNCHANGED cacheVars

\* get_by_id_cached lines 93 and 107: a plain SELECT; no row: None (404).
GC_Read(c) ==
    LET p == req[c].pid IN
    /\ req[c].pc = "gc_read"
    /\ req' = IF ProductExists(p)
              THEN [req EXCEPT ![c].pc = "gc_cache", ![c].loaded = products[p]]
              ELSE Finish(c, "None")
    /\ UNCHANGED <<products, orders, lock, queue, grants, initStock, restocked>>
    /\ UNCHANGED procVars
    /\ UNCHANGED cacheVars

\* get_by_id_cached lines 95-105: the row that was loaded is written to the
\* cache and returned.
GC_Cache(c) ==
    /\ req[c].pc = "gc_cache"
    /\ cache' = CacheSet(req[c].pid, req[c].loaded)
    /\ req' = IF Raises(redisDown)
              THEN Finish(c, "Exception")
              ELSE [Finish(c, "Product") EXCEPT ![c].returned = req[c].loaded]
    /\ UNCHANGED <<products, orders, lock, queue, grants, initStock, restocked>>
    /\ UNCHANGED procVars
    /\ UNCHANGED redisDown

\* Redis becomes unreachable, or reachable again, at any moment.
RedisFails ==
    /\ ~redisDown
    /\ redisDown' = TRUE
    /\ UNCHANGED <<products, orders, lock, req, queue, grants, initStock, restocked>>
    /\ UNCHANGED procVars
    /\ UNCHANGED cache

RedisRecovers ==
    /\ redisDown
    /\ redisDown' = FALSE
    /\ UNCHANGED <<products, orders, lock, req, queue, grants, initStock, restocked>>
    /\ UNCHANGED procVars
    /\ UNCHANGED cache

\* CacheService.set uses setex with the TTL: the key expires.
CacheExpires(p) ==
    /\ cache[p].exists
    /\ cache' = [cache EXCEPT ![p] = NoRow]
    /\ UNCHANGED <<products, orders, lock, req, queue, grants, initStock, restocked>>
    /\ UNCHANGED procVars
    /\ UNCHANGED redisDown

\* --------------------------------- DELETE /products/{id}: delete
\* api/products.py delete_product: ProductService.delete starts.
DP_Call(c, pid) ==
    /\ req[c].pc = "idle"
    /\ req' = [req EXCEPT ![c].op = "delete", ![c].pc = "dp_read", ![c].pid = pid]
    /\ UNCHANGED <<products, orders, lock, queue, grants, initStock, restocked>>
    /\ UNCHANGED procVars
    /\ UNCHANGED cacheVars

\* ProductService.delete lines 182-185: a plain SELECT; no row: False (404).
DP_Read(c) ==
    LET p == req[c].pid IN
    /\ req[c].pc = "dp_read"
    /\ req' = IF ProductExists(p)
              THEN [req EXCEPT ![c].pc = "dp_commit", ![c].loaded = products[p]]
              ELSE Finish(c, "False")
    /\ UNCHANGED <<products, orders, lock, queue, grants, initStock, restocked>>
    /\ UNCHANGED procVars
    /\ UNCHANGED cacheVars

\* Is there a row of orders whose product_id is p?
HasOrders(p) == \E i \in 1..Len(orders) : orders[i].product_id = p

\* Faulty variant: orders has no foreign key and its product_id is nullable,
\* so that the product is deleted whatever orders refer to it.
DP_CommitUnconstrained(c) ==
    LET p == req[c].pid IN
    /\ req[c].pc = "dp_commit"
    /\ CanLock(p, c)
    /\ products' = [products EXCEPT ![p] = NoRow]
    /\ orders' = [i \in 1..Len(orders) |->
                    IF orders[i].product_id = p THEN NoOrder ELSE orders[i]]
    /\ req' = [req EXCEPT ![c].pc = "dp_invalidate"]
    /\ lock' = ReleaseLocks(c)
    /\ UNCHANGED <<queue, grants, initStock, restocked>>
    /\ UNCHANGED procVars
    /\ UNCHANGED cacheVars

\* ProductService.delete lines 187-188: db.delete(product), commit. The
\* flush first detaches the orders of the product (relationship "orders",
\* models/order.py line 41): UPDATE orders SET product_id = NULL, which the
\* NOT NULL column (line 33) rejects; with no such order it issues DELETE
\* FROM products, which waits for the row lock and which the foreign key of
\* orders rejects if an order was committed meanwhile. Either way the
\* IntegrityError leaves delete and the session is closed; nothing changed.
DP_Commit(c) ==
    LET p == req[c].pid IN
    /\ req[c].pc = "dp_commit"
    /\ IF HasOrders(p)
       THEN /\ req' = Finish(c, "Exception")
            /\ UNCHANGED products
       ELSE /\ CanLock(p, c)
            /\ products' = [products EXCEPT ![p] = NoRow]
            /\ req' = [req EXCEPT ![c].pc = "dp_invalidate"]
    /\ lock' = ReleaseLocks(c)
    /\ UNCHANGED <<orders, queue, grants, initStock, restocked>>
    /\ UNCHANGED procVars
    /\ UNCHANGED cacheVars

\* ProductService.delete lines 190-193: the cache key is deleted and True
\* is returned (204).
DP_Invalidate(c) ==
    /\ req[c].pc = "dp_invalidate"
    /\ req' = IF Raises(redisDown)
              THEN Finish(c, "Exception")
              ELSE [Finish(c, "True") EXCEPT ![c].invalidated = InvalidatedKeys(c)]
    /\ UNCHANGED <<products, orders, lock, queue, grants, initStock, restocked>>
    /\ UNCHANGED procVars
    /\ cache' = CacheDelete(DeletedKeys(c))
    /\ UNCHANGED redisDown

\* ------------------------------------------ worker: process_order
\* Faulty variant: the UPDATE has no WHERE clause on the order id.
SetStatusAll(rows, id, status) ==
    [i \in DOMAIN rows |-> [rows[i] EXCEPT !.status = status]]

\* order.status = <status>; db.commit(): UPDATE orders SET status = <status>
\* WHERE id = <id>. The session holds no lock between its commits and the
\* statement writes the value whatever the committed status is.
SetStatus(rows, id, status) == [rows EXCEPT ![id].status = status]

\* Faulty variant: the status is set but the session is not committed before
\* the external step.
MarkProcessingUncommitted(rows, id) == rows

\* process_order lines 46-47.
MarkProcessing(rows, id) == SetStatus(rows, id, "PROCESSING")

\* Faulty variant: the handler's write fails and is rolled back (line 77).
MarkFailedSkipped(rows, id) == rows

\* process_order lines 72-75.
MarkFailed(rows, id) == SetStatus(rows, id, "FAILED")

\* Faulty variant: the budget is compared with request.retries, not with
\* request.retries + 1.
ShouldRetryOffByOne(retries) == retries <= MaxRetries

\* Task.retry: the retry is sent unless request.retries + 1 > max_retries.
ShouldRetry(retries) == retries + 1 <= MaxRetries

\* Faulty variant: the result of the query is not tested.
OrderExistsAlways(id) == TRUE

\* Does the query of process_order find the order?
OrderExists(id) == id \in 1..Len(orders)

\* Faulty variant: the write is flushed and the transaction is left open.
CommitKeepsLocks(locks) == locks

\* db.commit() of a worker's session: the transaction ends, and the locks
\* of the order rows its UPDATE statements took are released.
Commit(locks) == {}

\* UPDATE orders ... WHERE id = <id> waits while the session of another
\* worker process holds the lock of that row.
OrderRowFree(id, w) == \A v \in Workers \ {w} : id \notin worker[v].locks

\* countdown=60 of line 79: a retry is delivered no sooner than 60 s after
\* it was sent; the attempt that sent it only has to raise, close its session
\* and be acknowledged, and has ended by then.
CountingDown(m) ==
    \E w \in Workers :
        /\ worker[w].pc = "ack" /\ worker[w].result = "retry"
        /\ worker[w].order_id = m.order_id
        /\ worker[w].retries + 1 = m.retries

\* A worker process takes message m from the broker and runs process_order
\* lines 36-47: the order is queried; no row: the task returns "failed";
\* otherwise PROCESSING is written and committed. The message stays
\* unacknowledged (task_acks_late).
PO_Pickup(w, m) ==
    /\ worker[w].pc = "idle"
    /\ tasks[m] > 0
    /\ ~CountingDown(m)
    /\ tasks' = [tasks EXCEPT ![m] = @ - 1]
    /\ attempts' = [attempts EXCEPT ![m.order_id] = @ + 1]
    /\ IF OrderExists(m.order_id)
       THEN /\ OrderRowFree(m.order_id, w)
            /\ orders' = MarkProcessing(orders, m.order_id)
            /\ worker' = [worker EXCEPT ![w] =
                            [pc |-> "external", order_id |-> m.order_id,
                             retries |-> m.retries, result |-> "none",
                             locks |-> Commit({m.order_id})]]
       ELSE /\ orders' = orders
            /\ worker' = [worker EXCEPT ![w] =
                            [pc |-> "ack", order_id |-> m.order_id,
                             retries |-> m.retries, result |-> "failed",
                             locks |-> {}]]
    /\ UNCHANGED <<products, lock, req, queue, grants, initStock, restocked,
                   lost, exhausted>>
    /\ UNCHANGED cacheVars

\* process_order line 51: the external step (time.sleep(5)) returns.
PO_ExternalDone(w) ==
    /\ worker[w].pc = "external"
    /\ worker' = [worker EXCEPT ![w].pc = "complete"]
    /\ UNCHANGED <<products, orders, lock, req, queue, grants, initStock,
                   restocked, tasks, attempts, lost, exhausted>>
    /\ UNCHANGED cacheVars

\* celery_app.py task_soft_time_limit=240: the external step outlasts the
\* limit and SoftTimeLimitExceeded is raised in the task, which enters the
\* handler of line 67. (task_time_limit=300 would kill the process 60 s
\* later; the handler makes two database calls and one broker call, which
\* the model takes to end before that.)
PO_SoftTimeLimit(w) ==
    /\ worker[w].pc = "external"
    /\ worker' = [worker EXCEPT ![w].pc = "handler"]
    /\ UNCHANGED <<products, orders, lock, req, queue, grants, initStock,
                   restocked, tasks, attempts, lost, exhausted>>
    /\ UNCHANGED cacheVars

\* process_order lines 54-65: COMPLETED is written and committed, and the
\* task returns "success".
PO_Complete(w) ==
    /\ worker[w].pc = "complete"
    /\ OrderRowFree(worker[w].order_id, w)
    /\ orders' = SetStatus(orders, worker[w].order_id, "COMPLETED")
    /\ worker' = [worker EXCEPT ![w].pc = "ack", ![w].result = "success",
                                ![w].locks = Commit(@ \cup {worker[w].order_id})]
    /\ UNCHANGED <<products, lock, req, queue, grants, initStock, restocked,
                   tasks, attempts, lost, exhausted>>
    /\ UNCHANGED cacheVars

\* process_order lines 67-77: the handler queries the order again, writes
\* FAILED and commits.
PO_MarkFailed(w) ==
    /\ worker[w].pc = "handler"
    /\ OrderExists(worker[w].order_id) => OrderRowFree(worker[w].order_id, w)
    /\ orders' = IF OrderExists(worker[w].order_id)
                 THEN MarkFailed(orders, worker[w].order_id)
                 ELSE orders
    /\ worker' = [worker EXCEPT ![w].pc = "retry",
                                ![w].locks = Commit(@ \cup {worker[w].order_id})]
    /\ UNCHANGED <<products, lock, req, queue, grants, initStock, restocked,
                   tasks, attempts, lost, exhausted>>
    /\ UNCHANGED cacheVars

\* process_order line 79: self.retry(exc=e, countdown=60, max_retries=3)
\* sends the task again with request.retries + 1 and raises Retry, or, the
\* budget spent, raises the exception e: the task has failed.
PO_Retry(w) ==
    LET id == worker[w].order_id
        retries == worker[w].retries
    IN
    /\ worker[w].pc = "retry"
    /\ IF ShouldRetry(retries)
       THEN /\ tasks' = Publish(TaskMessage(id, retries + 1))
            /\ worker' = [worker EXCEPT ![w].pc = "ack", ![w].result = "retry"]
            /\ UNCHANGED exhausted
       ELSE /\ exhausted' = exhausted \cup {id}
            /\ worker' = [worker EXCEPT ![w].pc = "ack", ![w].result = "raised"]
            /\ UNCHANGED tasks
    /\ UNCHANGED <<products, orders, lock, req, queue, grants, initStock,
                   restocked, attempts, lost>>
    /\ UNCHANGED cacheVars

\* process_order lines 81-82 and the worker: the session is closed, the
\* message is acknowledged (after the task, task_acks_late=True) and the
\* process is free for the next task.
PO_Ack(w) ==
    /\ worker[w].pc = "ack"
    /\ worker' = [worker EXCEPT ![w] = IdleWorker]
    /\ UNCHANGED <<products, orders, lock, req, queue, grants, initStock,
                   restocked, tasks, attempts, lost, exhausted>>
    /\ UNCHANGED cacheVars

\* process_order.delay(order_id) called with any id, as any producer that
\* reaches the broker can: a message for the id waits for delivery. (One
\* such call per id, and none once the task of the id was attempted.)
PO_Invoke(id) ==
    /\ tasks[TaskMessage(id, 0)] = 0
    /\ attempts[id] = 0
    /\ tasks' = Publish(TaskMessage(id, 0))
    /\ UNCHANGED <<products, orders, lock, req, queue, grants, initStock,
                   restocked, worker, attempts, lost, exhausted>>
    /\ UNCHANGED cacheVars

\* celery_app.py lines 33-34: a worker process that dies while it executes
\* a task has not acknowledged the message (task_acks_late), and the message
\* is put back in the queue (task_reject_on_worker_lost): it is delivered
\* again with the same request.retries. What the process had committed
\* stays committed.
WorkerLost(w) ==
    /\ worker[w].pc # "idle"
    /\ lost < MaxLost
    /\ tasks' = Publish(TaskMessage(worker[w].order_id, worker[w].retries))
    /\ worker' = [worker EXCEPT ![w] = IdleWorker]
    /\ lost' = lost + 1
    /\ UNCHANGED <<products, orders, lock, req, queue, grants, initStock,
                   restocked, attempts, exhausted>>
    /\ UNCHANGED cacheVars

\* ------------------------------------------------------- specifications
\* The API under concurrent purchase, product creation and product update
\* requests.
Next ==
    \/ \E c \in Clients :
        \/ \E pid \in ProductIds, quantity \in QtyInputs : CO_Call(c, pid, quantity)
        \/ CO_LockRead(c)
        \/ CO_Reserve(c)
        \/ CO_CommitFails(c)
        \/ CO_Invalidate(c)
        \/ CO_Enqueue(c)
    \/ \E c \in Admins :
        \/ \E price \in PriceInputs, stock \in StockInputs : CreateProduct(c, price, stock)
        \/ \E pid \in ProductIds :
              \E price \in Optional(PriceInputs), stock \in Optional(StockInputs) :
                  UP_Call(c, pid, [price |-> price, stock |-> stock])
        \/ UP_Read(c)
        \/ UP_Commit(c)
        \/ UP_Invalidate(c)

Spec == Init /\ [][Next]_vars

\* The steps of the create_order call of handler c, after it was received.
CO_Step(c) ==
    \/ CO_LockRead(c)
    \/ CO_Reserve(c)
    \/ CO_CommitFails(c)
    \/ CO_Invalidate(c)
    \/ CO_Enqueue(c)

\* Spec with the scheduling the server gives: the thread that serves a
\* request keeps running, so a call that can take a step (its statement is
\* not waiting for a row lock) takes one. Nothing obliges a request to
\* arrive, nor the admin request to go on.
FairSpec == Spec /\ \A c \in Clients : WF_vars(CO_Step(c))

\* Concurrent purchases of product 1 with valid quantities, a database that
\* does not fail, and no other request.
NextReserve ==
    \E c \in Handlers :
        \/ \E quantity \in 1..MaxQty : CO_Call(c, 1, quantity)
        \/ CO_LockRead(c)
        \/ CO_Reserve(c)
        \/ CO_Invalidate(c)
        \/ CO_Enqueue(c)

SpecReserve == Init /\ [][NextReserve]_vars

\* Purchase requests, failing ones included, and the worker processes that
\* execute the tasks the purchases enqueue; every message is delivered once.
NextProcess ==
    \/ \E c \in Clients :
        \/ \E pid \in ProductIds, quantity \in QtyInputs : CO_Call(c, pid, quantity)
        \/ CO_LockRead(c)
        \/ CO_Reserve(c)
        \/ CO_CommitFails(c)
        \/ CO_Invalidate(c)
        \/ CO_Enqueue(c)
    \/ \E w \in Workers :
        \/ \E m \in TaskMessages : PO_Pickup(w, m)
        \/ PO_ExternalDone(w)
        \/ PO_SoftTimeLimit(w)
        \/ PO_Complete(w)
        \/ PO_MarkFailed(w)
        \/ PO_Retry(w)
        \/ PO_Ack(w)

SpecProcess == Init /\ [][NextProcess]_vars

\* Concurrent calls of create_order_optimistic, failing ones included.
NextOptimistic ==
    \E c \in Handlers :
        \/ \E pid \in ProductIds, quantity \in QtyInputs : OP_Call(c, pid, quantity)
        \/ OP_Read(c)
        \/ OP_Update(c)
        \/ OP_Commit(c)
        \/ OP_Invalidate(c)

SpecOptimistic == Init /\ [][NextOptimistic]_vars

\* A listing of an orders table that no request changes meanwhile. The table
\* holds the orders of total purchases of one unit of product 1, which was
\* created with that stock; the first done of them were processed.
InitListing ==
    /\ \E total \in 0..MaxRows, done \in 0..MaxRows :
          /\ done <= total
          /\ orders = [i \in 1..total |->
                         Order(1, 1, TotalPrice(1, 1),
                               IF i <= done THEN "COMPLETED" ELSE "PENDING")]
          /\ initStock = [p \in ProductIds |-> IF p = 1 THEN total ELSE 0]
    /\ products = [p \in ProductIds |-> IF p = 1 THEN Product(1, 0) ELSE NoRow]
    /\ lock = [p \in ProductIds |-> {}]
    /\ req = [c \in Handlers |-> IdleReq]
    /\ queue = <<>>
    /\ grants = <<>>
    /\ restocked = [p \in ProductIds |-> 0]
    /\ tasks = [m \in TaskMessages |-> 0]
    /\ worker = [w \in Workers |-> IdleWorker]
    /\ attempts = [id \in OrderIds |-> 0]
    /\ lost = 0
    /\ exhausted = {}
    /\ cache = [p \in ProductIds |-> NoRow]
    /\ redisDown = FALSE

NextListing ==
    \E c \in {1} :
        \/ \E page \in 0..MaxPage, page_size \in 0..MaxPageSize,
              status \in Optional({"PENDING", "COMPLETED", "FAILED"}) :
                LO_Call(c, page, page_size, status)
        \/ LO_Count(c)
        \/ LO_Fetch(c)

SpecListing == InitListing /\ [][NextListing]_vars

\* Reads of product 1 through the cache next to a purchase of the product
\* and a request that updates or deletes it; Redis works.
NextCache ==
    \/ \E c \in {1} :
        \/ \E quantity \in 1..MaxQty : CO_Call(c, 1, quantity)
        \/ CO_LockRead(c)
        \/ CO_Reserve(c)
        \/ CO_Invalidate(c)
        \/ CO_Enqueue(c)
    \/ \E c \in Clients \ {1} :
        \/ GP_Call(c, 1)
        \/ GP_Read(c)
        \/ GP_Cache(c)
        \/ GC_Call(c, 1)
        \/ GC_Read(c)
        \/ GC_Cache(c)
    \/ \E c \in Admins :
        \/ \E price \in Optional(1..MaxPrice), stock \in Optional(0..MaxStock) :
              UP_Call(c, 1, [price |-> price, stock |-> stock])
        \/ UP_Read(c)
        \/ UP_Commit(c)
        \/ UP_Invalidate(c)
        \/ DP_Call(c, 1)
        \/ DP_Read(c)
        \/ DP_Commit(c)
        \/ DP_Invalidate(c)
    \/ CacheExpires(1)

SpecCache == Init /\ [][NextCache]_vars

\* Purchases of product 1 through create_order and through
\* create_order_optimistic at the same time.
NextMixed ==
    \E c \in Handlers :
        \/ \E quantity \in 1..MaxQty : CO_Call(c, 1, quantity)
        \/ CO_LockRead(c)
        \/ CO_Reserve(c)
        \/ CO_Invalidate(c)
        \/ CO_Enqueue(c)
        \/ \E quantity \in 1..MaxQty : OP_Call(c, 1, quantity)
        \/ OP_Read(c)
        \/ OP_Update(c)
        \/ OP_Commit(c)
        \/ OP_Invalidate(c)

SpecMixed == Init /\ [][NextMixed]_vars

\* Purchases of product 1 through create_order_optimistic next to a request
\* that updates the product.
NextRepriced ==
    \/ \E c \in Clients :
        \/ \E quantity \in 1..MaxQty : OP_Call(c, 1, quantity)
        \/ OP_Read(c)
        \/ OP_Update(c)
        \/ OP_Commit(c)
        \/ OP_Invalidate(c)
    \/ \E c \in Admins :
        \/ \E price \in Optional(1..MaxPrice), stock \in Optional(0..MaxStock) :
              UP_Call(c, 1, [price |-> price, stock |-> stock])
        \/ UP_Read(c)
        \/ UP_Commit(c)
        \/ UP_Invalidate(c)

SpecRepriced == Init /\ [][NextRepriced]_vars

\* One purchase of product 1, tasks sent for any order id, and the worker
\* processes; every message is delivered once.
NextInvoke ==
    \/ \E c \in {1} :
        \/ \E quantity \in 1..MaxQty : CO_Call(c, 1, quantity)
        \/ CO_LockRead(c)
        \/ CO_Reserve(c)
        \/ CO_Invalidate(c)
        \/ CO_Enqueue(c)
    \/ \E id \in OrderIds : PO_Invoke(id)
    \/ \E w \in Workers :
        \/ \E m \in TaskMessages : PO_Pickup(w, m)
        \/ PO_ExternalDone(w)
        \/ PO_SoftTimeLimit(w)
        \/ PO_Complete(w)
        \/ PO_MarkFailed(w)
        \/ PO_Retry(w)
        \/ PO_Ack(w)

SpecInvoke == Init /\ [][NextInvoke]_vars

\* Two purchases and a read of product 1 while Redis fails and recovers.
NextOutage ==
    \/ \E c \in {1} \cup Admins :
        \/ \E pid \in ProductIds, quantity \in 1..MaxQty : CO_Call(c, pid, quantity)
        \/ CO_LockRead(c)
        \/ CO_Reserve(c)
        \/ CO_Invalidate(c)
        \/ CO_Enqueue(c)
    \/ \E c \in Clients \ {1} :
        \/ GP_Call(c, 1)
        \/ GP_Read(c)
        \/ GP_Cache(c)
        \/ GC_Call(c, 1)
        \/ GC_Read(c)
        \/ GC_Cache(c)
    \/ RedisFails
    \/ RedisRecovers

SpecOutage == Init /\ [][NextOutage]_vars

\* Purchase requests next to a request that updates or deletes a product.
\* (No product is created here: the model numbers new products by the rows
\* that exist, which is the sequence of Postgres only while none is deleted.)
NextCatalog ==
    \/ \E c \in Clients :
        \/ \E pid \in ProductIds, quantity \in QtyInputs : CO_Call(c, pid, quantity)
        \/ CO_LockRead(c)
        \/ CO_Reserve(c)
        \/ CO_CommitFails(c)
        \/ CO_Invalidate(c)
        \/ CO_Enqueue(c)
    \/ \E c \in Admins :
        \/ \E pid \in ProductIds :
              \E price \in Optional(PriceInputs), stock \in Optional(StockInputs) :
                  UP_Call(c, pid, [price |-> price, stock |-> stock])
        \/ UP_Read(c)
        \/ UP_Commit(c)
        \/ UP_Invalidate(c)
        \/ \E pid \in ProductIds : DP_Call(c, pid)
        \/ DP_Read(c)
        \/ DP_Commit(c)
        \/ DP_Invalidate(c)

SpecCatalog == Init /\ [][NextCatalog]_vars

\* SpecProcess with the scheduling the deployment gives: a request handler
\* that has committed its order goes on to return (it invalidates the cache
\* key and enqueues the task), the broker delivers every waiting message to
\* a free worker process, the external step of every attempt ends (it
\* returns or the time limit aborts it), and a worker process takes every
\* other step of the task it executes. Nothing obliges a purchase to arrive.
FairProcess ==
    /\ SpecProcess
    /\ \A c \in Clients : WF_vars(CO_Invalidate(c) \/ CO_Enqueue(c))
    /\ \A m \in TaskMessages : WF_vars(\E w \in Workers : PO_Pickup(w, m))
    /\ \A w \in Workers :
          /\ WF_vars(PO_ExternalDone(w) \/ PO_SoftTimeLimit(w))
          /\ WF_vars(PO_Complete(w) \/ PO_MarkFailed(w) \/ PO_Retry(w) \/ PO_Ack(w))

\* One purchase of product 1, and worker processes that may be lost while
\* they execute its task, so that the message is delivered again.
NextRedeliver ==
    \/ \E c \in {1} :
        \/ \E quantity \in 1..MaxQty : CO_Call(c, 1, quantity)
        \/ CO_LockRead(c)
        \/ CO_Reserve(c)
        \/ CO_Invalidate(c)
        \/ CO_Enqueue(c)
    \/ \E w \in Workers :
        \/ \E m \in TaskMessages : PO_Pickup(w, m)
        \/ PO_ExternalDone(w)
        \/ PO_SoftTimeLimit(w)
        \/ PO_Complete(w)
        \/ PO_MarkFailed(w)
        \/ PO_Retry(w)
        \/ PO_Ack(w)
        \/ WorkerLost(w)

SpecRedeliver == Init /\ [][NextRedeliver]_vars

\* The whole life of the orders of product 1: purchases, a request that
\* updates or deletes the product, and a worker process executing the tasks.
NextLifecycle ==
    \/ \E c \in Clients :
        \/ \E quantity \in 1..MaxQty : CO_Call(c, 1, quantity)
        \/ CO_LockRead(c)
        \/ CO_Reserve(c)
        \/ CO_Invalidate(c)
        \/ CO_Enqueue(c)
    \/ \E c \in Admins :
        \/ \E price \in Optional({MaxPrice}), stock \in Optional({MaxStock}) :
              UP_Call(c, 1, [price |-> price, stock |-> stock])
        \/ UP_Read(c)
        \/ UP_Commit(c)
        \/ UP_Invalidate(c)
        \/ DP_Call(c, 1)
        \/ DP_Read(c)
        \/ DP_Commit(c)
        \/ DP_Invalidate(c)
    \/ \E w \in {1} :
        \/ \E m \in TaskMessages : PO_Pickup(w, m)
        \/ PO_ExternalDone(w)
        \/ PO_SoftTimeLimit(w)
        \/ PO_Complete(w)
        \/ PO_MarkFailed(w)
        \/ PO_Retry(w)
        \/ PO_Ack(w)

SpecLifecycle == Init /\ [][NextLifecycle]_vars

\* ---------------------------------------------------- derived values
\* The purchases whose order is committed, and those that returned.
Committed(c) == req[c].op = "create_order" /\ req[c].order_id > 0
Returned(c) == req[c].pc = "done"
AllReturned == \A c \in Handlers : Returned(c)
Failed(c, error) == req[c].op = "create_order" /\ req[c].result = error

RECURSIVE SumQty(_)
SumQty(S) ==
    IF S = {} THEN 0
    ELSE LET c == CHOOSE x \in S : TRUE IN req[c].qty + SumQty(S \ {c})

\* Sum of the quantities of the first n order rows that are for product p.
RECURSIVE OrderedQty(_, _, _)
OrderedQty(rows, n, p) ==
    IF n = 0 THEN 0
    ELSE OrderedQty(rows, n - 1, p)
         + (IF rows[n].product_id = p THEN rows[n].quantity ELSE 0)

\* Stock of product 1 after the first n granted purchases, run one at a time
\* in the order of their lock grants.
RECURSIVE SerialStock(_)
SerialStock(n) ==
    IF n = 0 THEN initStock[1]
    ELSE LET before == SerialStock(n - 1)
             q == req[grants[n]].qty
         IN IF before >= q THEN before - q ELSE before

\* ------------------------------------------------------------- claims
\* C1: in every reachable state, under any interleaving of concurrent
\* create_order calls with product create and update requests, the
\* committed stock of every product is >= 0.
C1_StockNonNegative == \A p \in ProductIds : products[p].stock >= 0

\* C1 witness: two purchases of one product were served, one got its order,
\* the other was refused, and the stock is down to 0.
C1_Witness ==
    \E c1 \in Clients, c2 \in Clients :
        /\ req[c1].pid = req[c2].pid
        /\ req[c1].result = "Order"
        /\ Failed(c2, "InsufficientStockError")
        /\ products[req[c1].pid].stock = 0

\* C2: concurrent create_order calls against one product with initial stock
\* S and no other stock mutation: once all calls have returned, the stock
\* is S minus the sum of the quantities of the calls that returned an order.
C2_FinalStock ==
    AllReturned =>
        products[1].stock
            = initStock[1] - SumQty({c \in Handlers : req[c].result = "Order"})

\* C2 witness: every call returned, at least two with an order and one
\* without.
C2_Witness ==
    /\ AllReturned
    /\ Cardinality({c \in Handlers : req[c].result = "Order"}) >= 2
    /\ \E c \in Handlers : Failed(c, "InsufficientStockError")

\* C3: stock N and K > N concurrent create_order calls of quantity 1:
\* exactly N succeed and exactly K - N fail with InsufficientStockError.
C3_ExactlyN ==
    ( /\ AllReturned
      /\ \A c \in Handlers : req[c].qty = 1
      /\ Cardinality(Handlers) > initStock[1] )
    => /\ Cardinality({c \in Handlers : req[c].result = "Order"}) = initStock[1]
       /\ Cardinality({c \in Handlers : Failed(c, "InsufficientStockError")})
              = Cardinality(Handlers) - initStock[1]

\* C3 witness: all K calls of quantity 1 returned on a product that had
\* stock N with 1 <= N < K.
C3_Witness ==
    /\ AllReturned
    /\ \A c \in Handlers : req[c].qty = 1
    /\ initStock[1] >= 1
    /\ Cardinality(Handlers) > initStock[1]

\* C4: the outcomes of concurrent create_order calls on one product are
\* those of running the calls one at a time in the order of their lock
\* grants: the call granted n-th loads the stock the first n-1 calls leave,
\* succeeds iff that stock is >= its quantity, and the final stock is the
\* serial one. In particular, of two calls with quantities each <= stock and
\* a sum > stock, exactly one succeeds and the other fails with
\* InsufficientStockError.
C4_SerialByGrant ==
    /\ \A n \in 1..Len(grants) :
          LET c == grants[n] IN
          /\ req[c].pc = "co_reserve" => req[c].loaded.stock = SerialStock(n - 1)
          /\ req[c].pc # "co_reserve" =>
                /\ Committed(c) <=> SerialStock(n - 1) >= req[c].qty
                /\ ~Committed(c) <=> Failed(c, "InsufficientStockError")
    /\ AllReturned => products[1].stock = SerialStock(Len(grants))
    /\ \A c1 \in Handlers, c2 \in Handlers :
          ( /\ c1 # c2
            /\ Returned(c1) /\ Returned(c2)
            /\ \A c \in Handlers \ {c1, c2} : req[c].pc = "idle"
            /\ req[c1].qty <= initStock[1] /\ req[c2].qty <= initStock[1]
            /\ req[c1].qty + req[c2].qty > initStock[1] )
          => \/ /\ req[c1].result = "Order"
                /\ Failed(c2, "InsufficientStockError")
                /\ products[1].stock = initStock[1] - req[c1].qty
             \/ /\ req[c2].result = "Order"
                /\ Failed(c1, "InsufficientStockError")
                /\ products[1].stock = initStock[1] - req[c2].qty

\* C4 witness: two calls, each for no more than the stock and together for
\* more, both returned while no other call ran.
C4_Witness ==
    \E c1 \in Handlers, c2 \in Handlers :
        /\ c1 # c2
        /\ Returned(c1) /\ Returned(c2)
        /\ \A c \in Handlers \ {c1, c2} : req[c].pc = "idle"
        /\ req[c1].qty <= initStock[1] /\ req[c2].qty <= initStock[1]
        /\ req[c1].qty + req[c2].qty > initStock[1]
        /\ grants = <<c1, c2>>

\* A step of the purchase served by handler c.
StepOf(c) == req'[c] # req[c]

\* The step commits the order of handler c: one row is appended to orders,
\* every earlier row is as it was, and the stock of the ordered product,
\* and nothing else in products, is lowered by the ordered quantity.
CommitsOrder(c) ==
    LET p == req[c].pid IN
    /\ Len(orders') = Len(orders) + 1
    /\ SubSeq(orders', 1, Len(orders)) = orders
    /\ orders'[Len(orders')].product_id = p
    /\ orders'[Len(orders')].quantity = req[c].qty
    /\ products' = [products EXCEPT ![p].stock = products[p].stock - req[c].qty]

\* C5: every committed order row comes with the decrement of its product's
\* stock by its quantity, committed in the same step, and a purchase never
\* commits a decrement without its order: every step of a create_order call
\* either commits both or changes neither table, also when the call aborts
\* after its session changed the stock.
C5_OrderWithDecrement ==
    [][ /\ \A c \in Clients :
              StepOf(c) => \/ CommitsOrder(c)
                           \/ UNCHANGED <<products, orders>>
        /\ orders' # orders => \E c \in Clients : StepOf(c) /\ CommitsOrder(c)
      ]_vars

\* C5 witness: one purchase committed its order and another, of the same
\* product, aborted at its commit after changing the stock in its session.
C5_Witness ==
    \E c1 \in Clients, c2 \in Clients :
        /\ req[c1].pid = req[c2].pid
        /\ Committed(c1)
        /\ Failed(c2, "Exception")
        /\ OrderedQty(orders, Len(orders), req[c1].pid) = req[c1].qty
        /\ products[req[c1].pid].stock = initStock[req[c1].pid] - req[c1].qty

\* C6: under any interleaving of create_order calls with product updates
\* that set the stock, the quantities of the orders created for a product
\* never sum to more than the stock at the start plus the stock added by
\* restocking (no committed decrement is lost by a concurrent update).
C6_NoOversell ==
    \A p \in ProductIds :
        OrderedQty(orders, Len(orders), p) <= initStock[p] + restocked[p]

\* C7: a create_order call whose quantity exceeds the stock read under the
\* lock fails with InsufficientStockError and has no side effect: no order
\* row, no change of any product, no cache invalidation, no task enqueued,
\* and the row lock is released, so that a later reservation of the product
\* can take it.
C7_InsufficientNoEffect ==
    /\ [][ \A c \in Clients :
              (req[c].pc = "co_reserve" /\ req[c].loaded.stock < req[c].qty /\ StepOf(c))
              => /\ req'[c].pc = "done"
                 /\ req'[c].result = "InsufficientStockError"
                 /\ UNCHANGED <<products, orders, queue>>
                 /\ req'[c].invalidated = <<>> /\ req'[c].enqueued = <<>>
                 /\ lock'[req[c].pid] = {}
         ]_vars
    /\ [](\A c \in Clients :
              Failed(c, "InsufficientStockError")
              => /\ req[c].pc = "done" /\ req[c].order_id = 0
                 /\ req[c].invalidated = <<>> /\ req[c].enqueued = <<>>
                 /\ \A p \in ProductIds : c \notin lock[p])

\* C7 witness: a purchase was refused for insufficient stock and a purchase
\* of the same product that took the lock after it has committed its order.
C7_Witness ==
    \E c1 \in Clients, c2 \in Clients :
        /\ Failed(c1, "InsufficientStockError")
        /\ Committed(c2)
        /\ req[c1].pid = req[c2].pid
        /\ grants = <<c1, c2>>

\* C8: a create_order call for a product id that does not exist fails with
\* ProductNotFoundError: no order row, no product row locked or changed, no
\* cache invalidation, no task enqueued.
C8_NotFoundNoEffect ==
    /\ [][ \A c \in Clients :
              (req[c].pc = "co_lock" /\ ~products[req[c].pid].exists /\ StepOf(c))
              => /\ req'[c].pc = "done"
                 /\ req'[c].result = "ProductNotFoundError"
                 /\ UNCHANGED <<products, orders, queue, lock>>
                 /\ req'[c].invalidated = <<>> /\ req'[c].enqueued = <<>>
         ]_vars
    /\ [](\A c \in Clients :
              Failed(c, "ProductNotFoundError")
              => /\ req[c].pc = "done" /\ req[c].order_id = 0
                 /\ req[c].invalidated = <<>> /\ req[c].enqueued = <<>>
                 /\ \A p \in ProductIds : c \notin lock[p])

\* C8 witness: a purchase of a product id without a row has failed with
\* ProductNotFoundError.
C8_Witness ==
    \E c \in Clients :
        /\ Failed(c, "ProductNotFoundError")
        /\ ~products[req[c].pid].exists

\* C9: every order a successful create_order returns has status PENDING,
\* the requested product id and quantity, and total_price = quantity times
\* the product's price as read under the row lock, which is the committed
\* price when the decrement is committed.
C9_ReturnedOrder ==
    \A c \in Clients :
        req[c].pc = "co_enqueue" =>
            /\ req[c].result = "Order"
            /\ req[c].order.status = "PENDING"
            /\ req[c].order.product_id = req[c].pid
            /\ req[c].order.quantity = req[c].qty
            /\ req[c].order.total_price = req[c].qty * req[c].loaded.price
            /\ req[c].loaded.price = req[c].commit_price
            /\ orders[req[c].order_id] = req[c].order

\* C9 witness: an order for more than one unit of a product whose price an
\* update has changed was returned.
C9_Witness ==
    \E c \in Clients, a \in Admins :
        /\ req[c].pc = "co_enqueue"
        /\ req[c].qty > 1
        /\ req[c].loaded.price > 1
        /\ req[a].op = "update" /\ req[a].result = "Product"
        /\ req[a].pid = req[c].pid

\* C10: a successful create_order call inserts exactly one order row,
\* changes exactly one product row (the requested one, its stock lowered by
\* the requested quantity) and issues exactly one cache invalidation, for
\* that product's key; no step of the call changes any other product row or
\* order row.
C10_SuccessEffects ==
    /\ [][ \A c \in Clients :
              StepOf(c) =>
                 IF req[c].pc = "co_reserve" /\ req'[c].pc = "co_invalidate"
                 THEN /\ CommitsOrder(c)
                      /\ req'[c].order_id = Len(orders')
                      /\ \A d \in Handlers \ {c} : req[d].order_id # Len(orders')
                 ELSE UNCHANGED <<products, orders>>
         ]_vars
    /\ [](\A c \in Clients :
              req[c].result = "Order"
              => /\ req[c].invalidated = <<req[c].pid>>
                 /\ req[c].order_id \in 1..Len(orders)
                 /\ orders[req[c].order_id].product_id = req[c].pid
                 /\ orders[req[c].order_id].quantity = req[c].qty)

\* C10 witness: two purchases of different products both returned their
\* order.
C10_Witness ==
    \E c1 \in Clients, c2 \in Clients :
        /\ req[c1].pid # req[c2].pid
        /\ req[c1].result = "Order" /\ Returned(c1)
        /\ req[c2].result = "Order" /\ Returned(c2)

\* Is the status terminal (COMPLETED or FAILED)?
Terminal(status) == status \in {"COMPLETED", "FAILED"}

\* The orders process_order can be delivered for.
Existing == {id \in OrderIds : OrderExists(id)}

\* C11: a delivery of process_order for an order whose status is already
\* COMPLETED or FAILED never moves the status back to PROCESSING.
C11_NoRegress ==
    [][\A id \in Existing :
          Terminal(orders[id].status) => orders'[id].status # "PROCESSING"]_vars

\* How far a status is along PENDING, PROCESSING, COMPLETED or FAILED.
Rank(status) ==
    CASE status = "PENDING" -> 0
      [] status = "PROCESSING" -> 1
      [] OTHER -> 2

\* The worker processes that are executing process_order for order id.
Running(id) == {w \in Workers : worker[w].pc # "idle" /\ worker[w].order_id = id}

\* C12: while two deliveries for the same order run at the same time, no
\* write leaves the status earlier than the furthest status reached; in
\* particular PROCESSING is never written over COMPLETED.
C12_FurthestKept ==
    [][\A id \in Existing :
          Cardinality(Running(id)') >= 2
              => Rank(orders'[id].status) >= Rank(orders[id].status)]_vars

\* The transitions of the order status the specification allows.
ValidTransitions ==
    {<<"PENDING", "PROCESSING">>, <<"PROCESSING", "COMPLETED">>,
     <<"PROCESSING", "FAILED">>}

\* C13: over any sequence of operations, failed attempts and their retries
\* included, the only changes of an order's status are PENDING to
\* PROCESSING, PROCESSING to COMPLETED and PROCESSING to FAILED.
C13_OnlyValidTransitions ==
    [][\A id \in Existing :
          orders'[id].status # orders[id].status
              => <<orders[id].status, orders'[id].status>> \in ValidTransitions]_vars

\* The copies of messages for order id that wait in the broker.
Waiting(id) == {m \in TaskMessages : m.order_id = id /\ tasks[m] > 0}

C15_StaysFailed ==
    [][\A id \in exhausted' : orders'[id].status = "FAILED"]_vars

\* The order a step of worker process w is about: the one it picks up, or
\* the one it is executing.
TaskOf(w) == IF worker[w].pc = "idle" THEN worker'[w].order_id ELSE worker[w].order_id

TimedOut(w) ==
    \/ worker[w].pc \in {"handler", "retry"}
    \/ worker[w].pc = "ack" /\ worker[w].result \in {"retry", "raised"}

Settled(id) == OrderExists(id) /\ Terminal(orders[id].status)

Enqueues(id) == Cardinality({i \in 1..Len(queue) : queue[i] = id})

\* C20: the task is enqueued only for a committed order, exactly once per
\* successful purchase request and never for a failed one, and no attempt
\* of process_order starts, and no message waits, for an order that is not
\* committed.
C20_EnqueuedAfterCommit ==
    /\ \A i \in 1..Len(queue) : OrderExists(queue[i])
    /\ \A id \in OrderIds : Enqueues(id) <= 1
    /\ \A c \in Clients :
          /\ Returned(c) /\ req[c].result = "Order"
                => req[c].enqueued = <<req[c].order_id>> /\ Enqueues(req[c].order_id) = 1
          /\ Returned(c) /\ req[c].result # "Order" => req[c].enqueued = <<>>
          /\ ~Returned(c) => req[c].enqueued = <<>>
    /\ Len(queue) = Cardinality({c \in Clients : Returned(c) /\ req[c].result = "Order"})
    /\ \A id \in OrderIds :
          (attempts[id] > 0 \/ Waiting(id) # {} \/ Running(id) # {})
              => OrderExists(id) /\ Enqueues(id) = 1
    /\ \A w \in Workers : worker[w].result # "failed"

C20_Witness ==
    \E c1, c2 \in Clients :
        /\ Returned(c1) /\ req[c1].result = "Order"
        /\ req[c1].enqueued = <<req[c1].order_id>>
        /\ attempts[req[c1].order_id] > 0
        /\ Returned(c2) /\ req[c2].result = "InsufficientStockError"
        /\ req[c2].enqueued = <<>>
        /\ Len(queue) = 1

\* The request of handler c changed a product and has committed the change.
InvalidatePcs == {"co_invalidate", "up_invalidate", "dp_invalidate"}
CommitPcs == {"co_reserve", "up_commit", "dp_commit"}
Mutated(r) ==
    \/ r.op = "create_order" /\ r.result = "Order"
    \/ r.op = "update" /\ r.result = "Product"
    \/ r.op = "delete" /\ r.result = "True"

\* C21: every path that changes a product (a successful create_order,
\* update, delete) deletes the cache entry of that product after its commit
\* and before it returns: the invalidation is entered from the commit step
\* only, changes no table, and a successful call has returned only with the
\* key of its product invalidated.
C21_InvalidateAfterCommit ==
    [][\A c \in Handlers :
          /\ (req'[c].pc \in InvalidatePcs /\ req[c].pc \notin InvalidatePcs)
                => req[c].pc \in CommitPcs /\ req[c].invalidated = <<>>
          /\ req'[c].invalidated # req[c].invalidated
                => /\ req[c].pc \in InvalidatePcs
                   /\ req'[c].invalidated = <<req[c].pid>>
                   /\ products' = products /\ orders' = orders
          /\ (req'[c].pc = "done" /\ req[c].pc # "done" /\ Mutated(req'[c]))
                => req'[c].invalidated = <<req'[c].pid>>
          /\ (req'[c].pc = "done" /\ ~Mutated(req'[c]))
                => req'[c].invalidated = <<>>]_vars

C21_Witness ==
    \E c \in Admins :
        /\ req[c].op = "delete" /\ Returned(c) /\ req[c].result = "True"
        /\ ~ProductExists(req[c].pid)
        /\ req[c].invalidated = <<req[c].pid>>

\* The calls of create_order_optimistic that returned an order.
Succeeded == {c \in Handlers : Returned(c) /\ req[c].result = "Order"}

C24_OrderRowsFrozen ==
    [][/\ Len(orders') >= Len(orders)
       /\ \A i \in 1..Len(orders) :
             /\ orders'[i] = [orders[i] EXCEPT !.status = orders'[i].status]
             /\ orders'[i].status \in OrderStatus]_vars

C24_Witness ==
    /\ Len(orders) = 2
    /\ orders[1].status = "COMPLETED"
    /\ \E c \in Admins :
          req[c].op = "delete" /\ Returned(c) /\ req[c].result = "Exception"
    /\ ProductExists(1)

\* The number of items page p of size s shows of T rows.
PageLen(T, p, s) ==
    LET rest == IF T - (p - 1) * s > 0 THEN T - (p - 1) * s ELSE 0
    IN IF s < rest THEN s ELSE rest

\* C25: a listing over T matching rows with page p >= 1 and page_size
\* s >= 1 returns min(s, max(0, T - (p-1)*s)) items, all matching and in
\* descending id order, total = T, and total_pages = ceil(T/s) (the least n
\* with n*s >= T), or 1 when T = 0.
C25_Pagination ==
    \A c \in Handlers :
        (req[c].op = "get_orders" /\ Returned(c) /\ req[c].result = "OrderList") =>
            LET r == req[c]
                T == Cardinality(Matching(orders, r.status))
            IN
            /\ r.page >= 1 /\ r.page_size >= 1
            /\ Len(r.items) = PageLen(T, r.page, r.page_size)
            /\ \A j \in 1..Len(r.items) :
                  /\ r.items[j] \in Matching(orders, r.status)
                  /\ \A k \in (j + 1)..Len(r.items) : r.items[j] > r.items[k]
            /\ r.total = T
            /\ IF T = 0
               THEN r.total_pages = 1
               ELSE /\ r.total_pages * r.page_size >= T
                    /\ (r.total_pages - 1) * r.page_size < T

\* 15 rows with page_size 10: 10 items on page 1, total 15, total_pages 2.
C25_Witness ==
    \E c \in Handlers :
        /\ req[c].op = "get_orders" /\ Returned(c) /\ req[c].result = "OrderList"
        /\ Len(orders) = 15 /\ req[c].status = None
        /\ req[c].page = 1 /\ req[c].page_size = 10
        /\ Len(req[c].items) = 10 /\ req[c].items[1] = 15
        /\ req[c].total = 15 /\ req[c].total_pages = 2

C27_InvalidProductRejected ==
    /\ [](\A p \in ProductIds :
            ProductExists(p) => products[p].price > 0 /\ products[p].stock >= 0)
    /\ [][\A c \in Handlers :
            /\ \A price \in PriceInputs, stock \in StockInputs :
                  (CreateProduct(c, price, stock) /\ (price <= 0 \/ stock < 0))
                     => /\ req'[c].pc = "done"
                        /\ req'[c].result = "ValidationError"
                        /\ products' = products
            /\ \A pid \in ProductIds :
               \A price \in Optional(PriceInputs), stock \in Optional(StockInputs) :
                  (/\ UP_Call(c, pid, [price |-> price, stock |-> stock])
                   /\ \/ (price # None /\ price[1] <= 0)
                      \/ (stock # None /\ stock[1] < 0))
                     => /\ req'[c].pc = "done"
                        /\ req'[c].result = "ValidationError"
                        /\ products' = products]_vars

C27_Witness ==
    \E c \in Admins :
        /\ req[c].op = "create" /\ Returned(c) /\ req[c].result = "ValidationError"
        /\ ~ProductExists(2)
        /\ products[1].price > 0
        /\ \E b \in Clients : Committed(b)

\* The product rows whose lock the session of handler c holds.
Held(c) == {p \in ProductIds : c \in lock[p]}

\* C28: create_order holds the row lock of the product only from its
\* SELECT ... FOR UPDATE to its commit, that is across the stock check, the
\* decrement and the insert of the order: the step that writes the stock and
\* the order is taken with the lock held and releases it, and the cache
\* invalidation and the enqueue of the task are steps taken after that
\* commit by a session that holds no lock.
C28_LockWindow ==
    /\ [](\A c \in Handlers :
            req[c].op = "create_order" =>
                /\ Held(c) # {} => req[c].pc = "co_reserve" /\ Held(c) = {req[c].pid}
                /\ req[c].pc = "co_reserve" => Held(c) = {req[c].pid}
                /\ req[c].pc \in {"co_invalidate", "co_enqueue", "done"}
                      => Held(c) = {})
    /\ [][\A c \in Handlers :
            req'[c].op = "create_order" =>
                /\ (req'[c].invalidated # req[c].invalidated
                      \/ req'[c].enqueued # req[c].enqueued)
                      => /\ Held(c) = {} /\ Held(c)' = {}
                         /\ req[c].order_id > 0
                         /\ req[c].order_id <= Len(orders)
                /\ req'[c].order_id # req[c].order_id
                      => /\ Held(c) = {req[c].pid} /\ Held(c)' = {}
                         /\ req[c].invalidated = <<>> /\ req[c].enqueued = <<>>]_vars

\* A purchase has committed and deleted the cache key, holding no lock,
\* while the next purchase of the product holds the row lock.
C28_Witness ==
    \E c, b \in Clients :
        /\ req[c].pc = "co_enqueue" /\ req[c].invalidated = <<req[c].pid>>
        /\ Held(c) = {}
        /\ req[b].pc = "co_reserve" /\ req[b].pid = req[c].pid
        /\ Held(b) = {req[b].pid}

\* C29: a worker process inside the external step of process_order holds
\* no database lock: its session holds the lock of no order row, the steps
\* of process_order never touch the lock of a product row, and no other
\* process that is about to write the same order row has to wait.
C29_NoLockInExternalStep ==
    /\ [](\A w \in Workers :
            worker[w].pc = "external" =>
                /\ worker[w].locks = {}
                /\ \A v \in Workers \ {w} :
                      /\ worker[v].pc = "complete" => ENABLED PO_Complete(v)
                      /\ worker[v].pc = "handler" => ENABLED PO_MarkFailed(v)
                      /\ worker[v].pc = "idle" =>
                            \A m \in TaskMessages :
                                (tasks[m] > 0 /\ ~CountingDown(m))
                                    => ENABLED PO_Pickup(v, m))
    /\ [][(worker' # worker) => (lock' = lock /\ products' = products)]_vars

\* Two deliveries of the task of one order: one is inside the external step
\* and the other has written and committed COMPLETED meanwhile.
C29_Witness ==
    \E w, v \in Workers :
        /\ w # v
        /\ worker[w].pc = "external" /\ worker[w].locks = {}
        /\ worker[v].order_id = worker[w].order_id
        /\ worker[v].pc = "ack" /\ worker[v].result = "success"
        /\ orders[worker[w].order_id].status = "COMPLETED"

\* C30: every order row has quantity >= 1; a purchase request with
\* quantity < 1 gets a validation error before create_order runs, changing
\* no table; and no step of a create_order call raises the stock of any
\* product.
C30_QuantityAtLeastOne ==
    /\ [](/\ \A i \in 1..Len(orders) : orders[i].quantity >= 1
          /\ \A c \in Handlers :
                (req[c].op = "create_order" /\ req[c].pc \in {"co_lock", "co_reserve"})
                    => req[c].qty >= 1)
    /\ [][\A c \in Handlers :
            /\ \A pid \in ProductIds, quantity \in QtyInputs :
                  (CO_Call(c, pid, quantity) /\ quantity < 1)
                     => /\ req'[c].pc = "done"
                        /\ req'[c].result = "ValidationError"
                        /\ products' = products /\ orders' = orders
            /\ (req'[c].op = "create_order" /\ req'[c] # req[c])
                  => \A p \in ProductIds :
                        products'[p].stock <= products[p].stock]_vars

\* One purchase was rejected for its quantity and another one has lowered
\* the stock by its quantity.
C30_Witness ==
    \E c, b \in Clients :
        /\ req[c].op = "create_order" /\ Returned(c)
        /\ req[c].result = "ValidationError" /\ req[c].order_id = 0
        /\ Committed(b) /\ orders[req[b].order_id].quantity = MaxQty
        /\ products[req[b].pid].stock = initStock[req[b].pid] - MaxQty

\* No operation is in flight.
Quiescent == \A c \in Handlers : req[c].pc \in {"idle", "done"}

\* C31: whenever no operation is in flight, a cache entry that is present
\* for a product equals the committed row of the product, and no entry is
\* present for a product that does not exist: a read that loaded the row
\* before a purchase, update or delete committed has not put the earlier
\* value back after the invalidation.
C31_CacheCoherent ==
    Quiescent =>
        \A p \in ProductIds :
            cache[p].exists => ProductExists(p) /\ cache[p] = products[p]

\* The create_order call of handler c waits for the row lock of its product.
WaitsForLock(c) ==
    /\ req[c].op = "create_order" /\ req[c].pc = "co_lock"
    /\ ProductExists(req[c].pid)
    /\ ~CanLock(req[c].pid, c)

\* C32: every create_order call ends with an order or an error, whatever
\* the interleaving and the products of the concurrent calls: a call holds
\* the lock of at most one product row, a call that waits for a lock waits
\* for a call that can itself take a step (no deadlock), and every call
\* that was received returns.
C32_CreateOrderTerminates ==
    /\ [](\A c \in Handlers :
            /\ Cardinality(Held(c)) <= 1
            /\ WaitsForLock(c) =>
                  \E b \in Handlers \ {c} :
                      /\ b \in lock[req[c].pid]
                      /\ ~WaitsForLock(b)
                      /\ ENABLED CO_Step(b))
    /\ \A c \in Clients :
          (req[c].op = "create_order")
             ~> (/\ req[c].pc = "done"
                 /\ Held(c) = {}
                 /\ req[c].result \in {"Order", "ValidationError",
                                        "ProductNotFoundError",
                                        "InsufficientStockError", "Exception"})

\* A purchase waits for the row lock that another purchase holds.
C32_Witness ==
    \E c, b \in Clients :
        /\ WaitsForLock(c)
        /\ req[b].pc = "co_reserve" /\ Held(b) = {req[c].pid}

\* The update of handler c gave no stock, and the stock of its product was
\* changed by a commit since the update read the row.
StockMovedSinceRead(c) ==
    /\ req[c].op = "update" /\ req[c].data.stock = None
    /\ req[c].loaded.exists
    /\ req[c].loaded.stock # products[req[c].pid].stock

\* C33: an update that gives no stock value never changes the stock of the
\* product, also when a create_order of the product committed between the
\* read and the commit of the update: the commit of the update leaves the
\* stock at the value the reservation committed, which is the initial stock
\* minus the ordered quantities.
C33_DecrementSurvivesUpdate ==
    /\ [][\A c \in Handlers :
            (/\ req[c].op = "update" /\ req[c].pc = "up_commit"
             /\ req'[c].pc # "up_commit"
             /\ req[c].data.stock = None)
                => /\ products'[req[c].pid].stock = products[req[c].pid].stock
                   /\ orders' = orders]_vars
    /\ [](\A c \in Handlers :
            (req[c].pc = "up_invalidate" /\ StockMovedSinceRead(c))
                => products[req[c].pid].stock
                     = initStock[req[c].pid]
                         - OrderedQty(orders, Len(orders), req[c].pid))

\* The update has committed a new price; a purchase committed after the
\* update read the row, and its decrement is in place.
C33_Witness ==
    \E c \in Admins :
        /\ req[c].pc = "up_invalidate" /\ StockMovedSinceRead(c)
        /\ req[c].data.price # None
        /\ products[req[c].pid].price = req[c].data.price[1]
        /\ req[c].loaded.price # products[req[c].pid].price
        /\ products[req[c].pid].stock < req[c].loaded.stock
        /\ \E b \in Clients : Committed(b) /\ req[b].pid = req[c].pid

\* The calls of either kind that returned an order, by kind.
SucceededBy(op) == {c \in Succeeded : req[c].op = op}

\* C34: with create_order and create_order_optimistic running at the same
\* time on one product, in every interleaving the stock is never negative,
\* it is the initial stock minus the quantities of the committed orders, and
\* once all calls returned it is the initial stock minus the quantities of
\* the successful calls of both kinds.
C34_MixedReservations ==
    /\ products[1].stock >= 0
    /\ products[1].stock = initStock[1] - OrderedQty(orders, Len(orders), 1)
    /\ AllReturned =>
          /\ products[1].stock
                = initStock[1] - SumQty(SucceededBy("create_order"))
                               - SumQty(SucceededBy("create_order_optimistic"))
          /\ Len(orders) = Cardinality(Succeeded)

\* Calls of both kinds succeeded and one failed for lack of stock.
C34_Witness ==
    /\ AllReturned
    /\ SucceededBy("create_order") # {}
    /\ SucceededBy("create_order_optimistic") # {}
    /\ \E c \in Handlers : req[c].result = "InsufficientStockError"
    /\ products[1].stock = 0 /\ initStock[1] = MaxStock

\* C35: the order that create_order_optimistic has committed has
\* total_price = quantity times the price the product has, committed, when
\* the conditional decrement is applied (the row is locked from the
\* decrement to the commit, so this is the price at the commit), also when
\* an update of the price committed after the unlocked read of the call.
C35_OptimisticPriceAtDecrement ==
    \A c \in Handlers :
        (req[c].op = "create_order_optimistic" /\ req[c].pc = "op_invalidate") =>
            orders[req[c].order_id].total_price = req[c].qty * req[c].commit_price

\* C36: process_order started with an order id for which there is no order
\* returns the result "failed" at once, having changed no order and no
\* product, and neither it nor the worker that ends the task sends the task
\* again.
C36_MissingOrderFailsOnce ==
    [][\A w \in Workers :
          /\ (/\ worker[w].pc = "idle" /\ worker'[w].pc # "idle"
              /\ ~(worker'[w].order_id \in 1..Len(orders)))
                => /\ worker'[w].pc = "ack" /\ worker'[w].result = "failed"
                   /\ orders' = orders /\ products' = products
                   /\ \A m \in TaskMessages : tasks'[m] <= tasks[m]
                   /\ exhausted' = exhausted
          /\ (worker[w].result = "failed" /\ worker'[w] # worker[w])
                => /\ worker'[w] = IdleWorker
                   /\ tasks' = tasks
                   /\ orders' = orders /\ products' = products
                   /\ exhausted' = exhausted]_vars

\* The task of an id without an order was executed once and has ended; no
\* message for the id is left and no order was made meanwhile for that id.
C36_Witness ==
    \E id \in OrderIds :
        /\ id > Len(orders)
        /\ attempts[id] = 1
        /\ \A m \in TaskMessages : m.order_id = id => tasks[m] = 0
        /\ \A w \in Workers : worker[w] = IdleWorker
        /\ Len(orders) = 1 /\ orders[1].status = "COMPLETED"

\* The calls that read a product.
Reads == {"get_by_id", "get_by_id_cached"}

\* C37: Redis failing during a get, set or delete changes no outcome. A
\* create_order call returns its order or raises one of its reservation
\* errors, an order row exists exactly for the calls that got one, and the
\* stock is the initial stock minus the ordered quantities, as with a
\* working cache; a read that goes to the database returns the row it
\* fetched. A step taken while Redis is down raises nothing, returns no
\* cached value, leaves the cache as it is and does to the tables what it
\* does otherwise.
C37_CacheFailureHarmless ==
    /\ [](/\ \A p \in ProductIds :
                products[p].stock = initStock[p] - OrderedQty(orders, Len(orders), p)
          /\ Len(orders) = Cardinality({c \in Handlers : req[c].order_id > 0})
          /\ \A c \in Handlers :
                /\ req[c].result # "Exception"
                /\ (req[c].op = "create_order" /\ Returned(c)) =>
                      /\ req[c].result \in {"Order", "InsufficientStockError",
                                             "ProductNotFoundError"}
                      /\ req[c].result = "Order" <=> req[c].order_id > 0
                /\ req[c].order_id > 0 =>
                      /\ orders[req[c].order_id].product_id = req[c].pid
                      /\ orders[req[c].order_id].quantity = req[c].qty)
    /\ [][\A c \in Handlers :
            /\ (req'[c] # req[c] /\ redisDown) =>
                  /\ cache' = cache
                  /\ req'[c].result # "Cached"
                  /\ req[c].pc = "co_invalidate" =>
                        /\ req'[c].pc = "co_enqueue" /\ req'[c].result = "Order"
                        /\ products' = products /\ orders' = orders
                  /\ (req[c].pc = "idle" /\ req'[c].op \in Reads) =>
                        req'[c].pc \in {"gp_read", "gc_read"}
            /\ (req[c].pc \in {"gp_cache", "gc_cache"} /\ req'[c].pc = "done") =>
                  /\ req'[c].result = "Product"
                  /\ req'[c].returned = req[c].loaded]_vars

\* Redis is down and the purchase, whose delete of the key failed, goes on
\* to return its order: the key still holds the stock a read cached before.
C37_Witness ==
    \E c \in {1}, r \in Clients :
        /\ redisDown
        /\ req[c].pc = "co_enqueue" /\ req[c].result = "Order"
        /\ req[c].invalidated = <<1>>
        /\ req[r].op \in Reads /\ Returned(r) /\ req[r].result = "Product"
        /\ cache[1].exists /\ cache[1].stock = initStock[1]
        /\ products[1].stock = initStock[1] - req[c].qty
====
